---- MODULE Spec2Model ----
(***************************************************************************)
(* Model of the Zoom recording -> multichannel transcription glue:         *)
(*   utils/zoom.py      ZoomClient (token cache, recording API, downloads) *)
(*   utils/__init__.py  combine_tracks (ffmpeg amerge invocation)          *)
(*   cloud.py           startup check and main (the cloud pipeline)        *)
(*   local.py           startup check and main (the local pipeline)        *)
(*                                                                         *)
(* Python strings are sequences of one-character strings, so that split,   *)
(* strip, endswith, str() and int() are computed and not assumed.          *)
(* Python's None is the empty sequence and a value v is <<v>>.             *)
(***************************************************************************)
EXTENDS Integers, Sequences, FiniteSets, TLC

\* ------------------------------------------------------------------ bounds
MaxFiles == 2
MaxUtts == 1
MaxTime == 3
MaxExpiresIn == 2
MaxTok == 2

\* ----------------------------------------------------------- Python values
None == <<>>
Some(v) == <<v>>

\* str.split('-')[-1]: what follows the last '-', the whole string without one
LastSepIndex(s) ==
  LET hits == {i \in 1..Len(s) : s[i] = "-"}
  IN IF hits = {} THEN 0 ELSE CHOOSE i \in hits : \A j \in hits : j <= i

AfterLastSep(s) == SubSeq(s, LastSepIndex(s) + 1, Len(s))

\* str.strip(): leading and trailing whitespace removed
Strip(s) ==
  LET ink == {i \in 1..Len(s) : s[i] # " "}
  IN IF ink = {} THEN <<>>
     ELSE LET f == CHOOSE i \in ink : \A j \in ink : i <= j
              l == CHOOSE i \in ink : \A j \in ink : j <= i
          IN SubSeq(s, f, l)

\* data['file_name'].split('-')[-1].strip()
DisplayName(file_name) == Strip(AfterLastSep(file_name))

\* str.endswith
EndsWith(s, suffix) ==
  /\ Len(s) >= Len(suffix)
  /\ SubSeq(s, Len(s) - Len(suffix) + 1, Len(s)) = suffix

M4A == <<".", "m", "4", "a">>

DigitChars == <<"0", "1", "2", "3", "4", "5", "6", "7", "8", "9">>

\* str(n) of an integer
RECURSIVE StrNat(_)
StrNat(n) == IF n < 10 THEN <<DigitChars[n + 1]>>
             ELSE StrNat(n \div 10) \o <<DigitChars[(n % 10) + 1]>>

Str(n) == IF n < 0 THEN <<"-">> \o StrNat(-n) ELSE StrNat(n)

DigitValue(c) == CHOOSE d \in 0..9 : DigitChars[d + 1] = c

IsDigit(c) == \E d \in 0..9 : DigitChars[d + 1] = c

RECURSIVE ParseNat(_)
ParseNat(s) == IF Len(s) = 1 THEN DigitValue(s[1])
               ELSE 10 * ParseNat(SubSeq(s, 1, Len(s) - 1)) + DigitValue(s[Len(s)])

\* int(x): surrounding whitespace dropped, an optional sign, then digits;
\* anything else raises ValueError.  (int() of an int is the int itself: an
\* integer channel is given here by its decimal text.)
IntOf(x) ==
  LET s == Strip(x)
      signed == Len(s) > 0 /\ s[1] \in {"-", "+"}
      body == IF signed THEN Tail(s) ELSE s
  IN IF Len(body) = 0 \/ \E i \in 1..Len(body) : ~IsDigit(body[i])
     THEN [ok |-> FALSE, val |-> 0]
     ELSE [ok |-> TRUE,
           val |-> IF signed /\ s[1] = "-" THEN 0 - ParseNat(body) ELSE ParseNat(body)]

\* list[i] of Python: a negative index counts from the end; out of range raises
PyIndex(lst, i) ==
  IF 0 <= i /\ i < Len(lst) THEN [ok |-> TRUE, val |-> Some(lst[i + 1])]
  ELSE IF i < 0 /\ 0 - i <= Len(lst) THEN [ok |-> TRUE, val |-> Some(lst[Len(lst) + i + 1])]
  ELSE [ok |-> FALSE, val |-> None]

\* Python == between values of the builtin types used here: a tuple and a
\* str are never equal.
PyStr(s) == [type |-> "str", val |-> s]
PyTuple(t) == [type |-> "tuple", val |-> t]
PyEquals(a, b) == a.type = b.type /\ a.val = b.val

\* list.count(x)
ListCount(lst, x) == Cardinality({i \in 1..Len(lst) : PyEquals(lst[i], x)})

\* os.path.join(dir, file)
PathJoin(d, f) == d \o <<"/">> \o f

\* all orderings of a finite set (os.listdir returns entries in arbitrary order)
Orderings(S) ==
  {s \in [1..Cardinality(S) -> S] : \A i, j \in 1..Cardinality(S) : i # j => s[i] # s[j]}

\* ------------------------------------------------------------------ inputs
\* data['file_name'] values the provider may return: "z- A" and "y-z-B "
RawFileNames == { <<"z", "-", " ", "A">>, <<"y", "-", "z", "-", "B", " ">> }

FileLists == UNION {[1..n -> RawFileNames] : n \in 0..MaxFiles}

\* entries the input directory may hold before the run: "o.m4a", "n.txt"
PreFiles == { <<"o">> \o M4A, <<"n", ".", "t", "x", "t">> }

Tokens == 1..MaxTok

Statuses == {200, 404}

\* responses of the OAuth token endpoint: a status, whether the body is JSON,
\* and the keys the JSON body holds
ExchangeResponses ==
  {[status |-> 404, json |-> TRUE, keys |-> {}, access_token |-> 1, expires_in |-> 0],
   [status |-> 200, json |-> FALSE, keys |-> {}, access_token |-> 1, expires_in |-> 0]}
  \cup {[status |-> 200, json |-> TRUE, keys |-> {"access_token", "expires_in"},
         access_token |-> a, expires_in |-> e] : a \in Tokens, e \in 0..MaxExpiresIn}
  \cup {[status |-> 200, json |-> TRUE, keys |-> {"access_token"},
         access_token |-> a, expires_in |-> 0] : a \in Tokens}
  \cup {[status |-> 200, json |-> TRUE, keys |-> {"expires_in"},
         access_token |-> 1, expires_in |-> e] : e \in 0..MaxExpiresIn}
  \cup {[status |-> 200, json |-> TRUE, keys |-> {}, access_token |-> 1, expires_in |-> 0]}

\* the exchanges offered to the three programs: failures of every kind, a
\* token that has expired when it is next read and one that has not
RunExchangeResponses ==
  {r \in ExchangeResponses : r.access_token = 1 /\ r.expires_in \in {0, MaxExpiresIn}}

NoResponse == [status |-> 0, json |-> FALSE, keys |-> {}, access_token |-> 1, expires_in |-> 0]

\* outcomes of requests.get(download_url): a 200 with the audio, any other
\* status (requests returns the response, its body being the error page), or
\* a transport failure (requests raises)
DownloadOutcomes == {"ok", "http_error", "transport_error"}

\* utt.channel values: "0", "1", "12", "-1"
Channels == { <<"0">>, <<"1">>, <<"1", "2">>, <<"-", "1">> }

Utterances ==
  UNION {{[i \in 1..n |-> [channel |-> f[i], text |-> i]] : f \in [1..n -> Channels]} :
         n \in 0..MaxUtts}

EnvKeys == {"ZOOM_ACCOUNT_ID", "ZOOM_CLIENT_ID", "ZOOM_CLIENT_SECRET", "ASSEMBLYAI_API_KEY"}

\* os.environ.get(k): None, the empty string, or a value
EnvValues == {None, Some(<<>>), Some(<<"v">>)}

\* Python truthiness of an optional string
Truthy(v) == v # None /\ v[1] # <<>>

\* ------------------------------------------------------------------- state
VARIABLES
  program,                 \* "cloud", "local" or "client" (a ZoomClient in use)
  env,                     \* the process environment
  pc,                      \* position of the single thread of control
  err,                     \* the exception that ended the run, or "none"
  _access_token,           \* ZoomClient._access_token
  _token_expiry,           \* ZoomClient._token_expiry
  now,                     \* time.time()
  lastRead,                \* the last read of access_token: what it saw and did
  issued,                  \* (token, expiry) of the last successful exchange
  netCalls,                \* kinds of network requests made so far
  dirExists,               \* the input directory exists
  dirFiles,                \* its entries: file name -> content
  outFile,                 \* combined_audio.m4a: "absent", "old" or "merged"
  transcriptFile,          \* transcript.json: "absent", "old" or "written"
  fs0,                     \* the file system when the run started
  meets,                   \* result of get_recordings
  meeting_uuid,            \* the meeting selected
  participant_audio_files, \* response['participant_audio_files'] (file names)
  idx,                     \* position of the download loop (1-based)
  channel_map,             \* [(local_filename, participant_name), ...]
  names,                   \* download_participant_audio_files: name -> count
  written,                 \* local file names written by the downloads, in order
  fetched,                 \* outcomes of the download requests, in order
  call,                    \* the call of combine_tracks: its arguments and what
                           \* the file system held when it was made
  listed,                  \* combine_tracks called os.listdir
  ffmpeg,                  \* the ffmpeg command run by combine_tracks
  utterances,              \* transcript.utterances (their channels)
  final_utterances         \* the labeled utterances

tokenVars == <<_access_token, _token_expiry, lastRead, issued>>
fsVars == <<dirExists, dirFiles, outFile, transcriptFile>>
loopVars == <<participant_audio_files, idx, channel_map, names, written, fetched>>
mergeVars == <<call, listed, ffmpeg>>
labelVars == <<utterances, final_utterances>>
listVars == <<meets, meeting_uuid>>
vars == <<program, env, pc, err, tokenVars, now, netCalls, fsVars, fs0, listVars,
          loopVars, mergeVars, labelVars>>

FS == [dirExists |-> dirExists, dirFiles |-> dirFiles, outFile |-> outFile,
       transcriptFile |-> transcriptFile]

\* --------------------------------------------------------- utils/zoom.py
\* a slip in the comparison: the token still counts as fresh at its expiry
is_token_expired_strict(expiry, t) ==
  /\ expiry # None
  /\ expiry[1] # 0
  /\ t > expiry[1]

\* ZoomClient._is_token_expired: `self._token_expiry and time.time() >= ...`
is_token_expired(expiry, t) ==
  /\ expiry # None
  /\ expiry[1] # 0
  /\ t >= expiry[1]

\* ZoomClient._refresh_token: the fields after the call and what it raised
refresh_token(token, expiry, t, resp) ==
  IF resp.status >= 400
    THEN [token |-> token, expiry |-> expiry, raised |-> "HTTPError"]
  ELSE IF ~resp.json
    THEN [token |-> token, expiry |-> expiry, raised |-> "ValueError"]
  ELSE IF "access_token" \notin resp.keys
    THEN [token |-> token, expiry |-> expiry, raised |-> "KeyError"]
  ELSE IF "expires_in" \notin resp.keys
    THEN [token |-> Some(resp.access_token), expiry |-> expiry, raised |-> "KeyError"]
  ELSE [token |-> Some(resp.access_token), expiry |-> Some(t + resp.expires_in),
        raised |-> "none"]

\* ZoomClient.access_token (and auth_header, which reads it once)
access_token(token, expiry, t, resp) ==
  IF token = None \/ is_token_expired(expiry, t)
    THEN LET r == refresh_token(token, expiry, t, resp)
         IN [token |-> r.token, expiry |-> r.expiry, raised |-> r.raised,
             exchanged |-> TRUE,
             returned |-> IF r.raised = "none" THEN r.token ELSE None]
    ELSE [token |-> token, expiry |-> expiry, raised |-> "none",
          exchanged |-> FALSE, returned |-> token]

\* the record kept of one read
ReadRecord(token, expiry, t, resp, r) ==
  [pre_token |-> token, pre_expiry |-> expiry, at |-> t,
   resp |-> IF r.exchanged THEN resp ELSE NoResponse,
   exchanged |-> r.exchanged, raised |-> r.raised, returned |-> r.returned,
   post_token |-> r.token, post_expiry |-> r.expiry]

\* one read of the property at a client whose fields are token and expiry:
\* the fields, the history and the requests after it
ReadState(token, expiry, iss, resp) ==
  LET r == access_token(token, expiry, now, resp)
  IN [token |-> r.token, expiry |-> r.expiry, raised |-> r.raised,
      last |-> Some(ReadRecord(token, expiry, now, resp, r)),
      issued |-> IF r.exchanged /\ r.raised = "none"
                 THEN Some(<<r.token, r.expiry>>) ELSE iss,
      calls |-> IF r.exchanged THEN {"token"} ELSE {}]

\* the fields alone
SetFields(s) ==
  /\ _access_token' = s.token
  /\ _token_expiry' = s.expiry
  /\ UNCHANGED <<lastRead, issued>>

SetToken(s) ==
  /\ _access_token' = s.token
  /\ _token_expiry' = s.expiry
  /\ lastRead' = s.last
  /\ issued' = s.issued

\* api_call: a non-200 status raises ZoomAPIError, a non-JSON body ValueError
api_call(resp) ==
  IF resp.status # 200 THEN "ZoomAPIError"
  ELSE IF ~resp.json THEN "ValueError"
  ELSE "none"

\* download_participant_audio_files, lines 103-108: the local file name of
\* the next entry, given the occurrence counts so far
ZoomCount(nm, name) == IF name \in DOMAIN nm THEN nm[name] + 1 ELSE 1

ZoomFilename(nm, name) ==
  LET n == ZoomCount(nm, name)
  IN (IF n > 1 THEN name \o <<"_">> \o Str(n) ELSE name) \o M4A

\* open(path, 'wb').write(content)
WriteFile(files, f, content) ==
  [g \in DOMAIN files \cup {f} |-> IF g = f THEN content ELSE files[g]]

Raise(e) == pc' = "error" /\ err' = e

\* ------------------------------------------------------------------- Init
InitFS ==
  /\ dirExists \in BOOLEAN
  /\ \E S \in SUBSET PreFiles :
        /\ (~dirExists => S = {})
        /\ dirFiles = [f \in S |-> [from |-> 0, audio |-> TRUE]]
  /\ outFile \in {"absent", "old"}
  /\ transcriptFile \in {"absent", "old"}
  /\ fs0 = FS

InitRest ==
  /\ err = "none"
  /\ _access_token = None
  /\ _token_expiry = None
  /\ now = 1
  /\ lastRead = None
  /\ issued = None
  /\ netCalls = {}
  /\ meets = None
  /\ meeting_uuid = None
  /\ participant_audio_files = <<>>
  /\ idx = 1
  /\ channel_map = <<>>
  /\ names = <<>>
  /\ written = <<>>
  /\ fetched = <<>>
  /\ call = None
  /\ listed = FALSE
  /\ ffmpeg = None
  /\ utterances = <<>>
  /\ final_utterances = <<>>

\* time passes
Tick ==
  /\ pc \notin {"done", "error"}
  /\ now < MaxTime
  /\ now' = now + 1
  /\ UNCHANGED <<program, env, pc, err, tokenVars, netCalls, fsVars, fs0, listVars,
                 loopVars, mergeVars, labelVars>>

\* ------------------------------------------- a ZoomClient used on its own
InitClient ==
  /\ program = "client"
  /\ env = [k \in EnvKeys |-> Some(<<"v">>)]
  /\ pc = "idle"
  /\ dirExists = FALSE
  /\ dirFiles = <<>>
  /\ outFile = "absent"
  /\ transcriptFile = "absent"
  /\ fs0 = FS
  /\ InitRest

\* client.access_token / client.auth_header, read by any caller; an exception
\* goes to the caller and the client stays in use
ReadAccessToken ==
  /\ program = "client" /\ pc = "idle"
  /\ \E resp \in ExchangeResponses :
       LET s == ReadState(_access_token, _token_expiry, issued, resp)
       IN /\ SetToken(s)
          /\ netCalls' = netCalls \cup s.calls
  /\ UNCHANGED <<program, env, pc, err, now, fsVars, fs0, listVars, loopVars,
                 mergeVars, labelVars>>

NextClient ==
  \/ ReadAccessToken
  \/ Tick

SpecClient == InitClient /\ [][NextClient]_vars

\* ------------------- a script calling download_participant_audio_files once
\* lines 99-101: makedirs and the listing of the meeting's files
DownloadParticipantAudioFiles ==
  /\ program = "download" /\ pc = "start"
  /\ dirExists' = TRUE
  /\ \E resp \in RunExchangeResponses, status \in Statuses, files \in FileLists :
       LET s == ReadState(_access_token, _token_expiry, issued, resp)
       IN /\ SetFields(s)
          /\ IF s.raised # "none"
               THEN /\ netCalls' = netCalls \cup s.calls
                    /\ Raise(s.raised)
                    /\ UNCHANGED participant_audio_files
             ELSE IF status # 200
               THEN /\ netCalls' = netCalls \cup s.calls \cup {"meeting"}
                    /\ Raise("ZoomAPIError")
                    /\ UNCHANGED participant_audio_files
             ELSE /\ netCalls' = netCalls \cup s.calls \cup {"meeting"}
                  /\ participant_audio_files' = files
                  /\ pc' = IF files = <<>> THEN "done" ELSE "dpaf"
                  /\ UNCHANGED err
  /\ UNCHANGED <<program, env, now, dirFiles, outFile, transcriptFile, fs0,
                 listVars, idx, channel_map, names, written, fetched, mergeVars, labelVars>>

\* lines 102-113: one turn of the loop
DownloadParticipantAudioFile ==
  /\ program = "download" /\ pc = "dpaf"
  /\ \E resp \in RunExchangeResponses, outcome \in DownloadOutcomes :
       LET name == DisplayName(participant_audio_files[idx])
           filename == ZoomFilename(names, name)
           s == ReadState(_access_token, _token_expiry, issued, resp)
       IN /\ SetFields(s)
          /\ names' = [n \in DOMAIN names \cup {name} |->
                         IF n = name THEN ZoomCount(names, n) ELSE names[n]]
          /\ IF s.raised # "none"
               THEN /\ netCalls' = netCalls \cup s.calls
                    /\ Raise(s.raised)
                    /\ UNCHANGED <<dirFiles, written, fetched, idx>>
             ELSE IF outcome = "transport_error"
               THEN /\ netCalls' = netCalls \cup s.calls \cup {"download"}
                    /\ fetched' = Append(fetched, outcome)
                    /\ Raise("ConnectionError")
                    /\ UNCHANGED <<dirFiles, written, idx>>
             ELSE /\ netCalls' = netCalls \cup s.calls \cup {"download"}
                  /\ fetched' = Append(fetched, outcome)
                  /\ dirFiles' = WriteFile(dirFiles, filename,
                                           [from |-> idx, audio |-> outcome = "ok"])
                  /\ written' = Append(written, filename)
                  /\ idx' = idx + 1
                  /\ pc' = IF idx + 1 > Len(participant_audio_files) THEN "done" ELSE "dpaf"
                  /\ UNCHANGED err
  /\ UNCHANGED <<program, env, now, dirExists, outFile, transcriptFile, fs0,
                 listVars, participant_audio_files, channel_map, mergeVars, labelVars>>

\* ------------------------------------------------------ utils/__init__.py
\* a slip: the extension filter left out
InputFilesAll(d, order) == [i \in 1..Len(order) |-> PathJoin(d, order[i])]

\* input_files of combine_tracks: the listed entries ending in .m4a, joined
\* to the directory, in listing order
InputFiles(d, order) ==
  LET eligible == SelectSeq(order, LAMBDA f : EndsWith(f, M4A))
  IN [i \in 1..Len(eligible) |-> PathJoin(d, eligible[i])]

\* a slip: the overwrite guard left out
combine_tracks_unguarded(filepath, d, safe, out_exists, dir_exists, order, tool_ok) ==
  IF ~dir_exists
    THEN [raised |-> "FileNotFoundError", listed |-> FALSE, command |-> None, wrote |-> FALSE]
  ELSE LET input_files == SelectSeq(order, LAMBDA f : EndsWith(f, M4A))
           n == Len(input_files)
       IN IF n = 0
            THEN [raised |-> "ValueError", listed |-> TRUE, command |-> None, wrote |-> FALSE]
          ELSE [raised |-> IF tool_ok /\ ~out_exists THEN "none" ELSE "RuntimeError",
                listed |-> TRUE,
                command |-> Some([overwrite |-> IF ~safe THEN "-y" ELSE "-n",
                                  inputs |-> [i \in 1..n |-> PathJoin(d, input_files[i])],
                                  amerge_inputs |-> [i \in 1..n |-> i - 1],
                                  amerge_n |-> n, ac |-> n, filepath |-> filepath]),
                wrote |-> tool_ok /\ ~out_exists]

\* combine_tracks(filepath, dir, safe) on a file system where the output
\* exists or not and the directory exists or not, os.listdir answering
\* `order` and ffmpeg succeeding or not: what it raised, what it listed, the
\* command it ran and whether the output was written
combine_tracks(filepath, d, safe, out_exists, dir_exists, order, tool_ok) ==
  IF safe /\ out_exists
    THEN [raised |-> "FileExistsError", listed |-> FALSE, command |-> None, wrote |-> FALSE]
  ELSE IF ~dir_exists
    THEN [raised |-> "FileNotFoundError", listed |-> FALSE, command |-> None, wrote |-> FALSE]
  ELSE LET input_files == InputFiles(d, order)
           n == Len(input_files)
           command == [overwrite |-> IF ~safe THEN "-y" ELSE "-n",
                       inputs |-> input_files,
                       amerge_inputs |-> [i \in 1..n |-> i - 1],
                       amerge_n |-> n,
                       ac |-> n,
                       filepath |-> filepath]
       IN IF n = 0
            THEN [raised |-> "ValueError", listed |-> TRUE, command |-> None,
                  wrote |-> FALSE]
          ELSE IF ~tool_ok
            THEN [raised |-> "RuntimeError", listed |-> TRUE,
                  command |-> Some(command), wrote |-> FALSE]
          ELSE [raised |-> "none", listed |-> TRUE, command |-> Some(command),
                wrote |-> TRUE]

CombinedPath == <<"c", "o", "m", "b", "i", "n", "e", "d", "_", "a", "u", "d", "i", "o">> \o M4A

TmpDir == <<"t", "m", "p">>

RecordingsDir == <<"r", "e", "c", "o", "r", "d", "i", "n", "g", "s">>

\* ---------------------------------------------------------------- cloud.py
\* a slip: the transcription key left out of the check
CloudConfigOkZoomOnly(e) == \A k \in EnvKeys \ {"ASSEMBLYAI_API_KEY"} : Truthy(e[k])

\* lines 17-27: all([...]) over the four values
CloudConfigOk(e) == \A k \in EnvKeys : Truthy(e[k])

CloudStartup ==
  /\ program = "cloud" /\ pc = "startup"
  /\ IF CloudConfigOk(env) THEN pc' = "main" /\ UNCHANGED err
     ELSE Raise("RuntimeError")
  /\ UNCHANGED <<program, env, tokenVars, now, netCalls, fsVars, fs0, listVars,
                 loopVars, mergeVars, labelVars>>

\* responses of GET users/me/recordings
ListingResponses ==
  {[status |-> 404, json |-> TRUE, has_meetings |-> FALSE, meetings |-> <<>>],
   [status |-> 200, json |-> FALSE, has_meetings |-> FALSE, meetings |-> <<>>],
   [status |-> 200, json |-> TRUE, has_meetings |-> FALSE, meetings |-> <<>>],
   [status |-> 200, json |-> TRUE, has_meetings |-> TRUE, meetings |-> <<>>],
   [status |-> 200, json |-> TRUE, has_meetings |-> TRUE, meetings |-> <<"u2", "u1">>]}

\* responses of GET meetings/{uuid}/recordings
MeetingResponses ==
  {[status |-> 404, json |-> TRUE, has_files |-> FALSE, files |-> <<>>],
   [status |-> 200, json |-> TRUE, has_files |-> FALSE, files |-> <<>>]}
  \cup {[status |-> 200, json |-> TRUE, has_files |-> TRUE, files |-> fl] : fl \in FileLists}

\* a slip: only the missing key counts as no meetings
NoMeetingsKeyOnly(m) == ~m.has_meetings

\* line 65: `not meets.get("meetings")`
NoMeetings(m) == ~m.has_meetings \/ m.meetings = <<>>

\* main, lines 61-80: the listing, the early return, the first meeting's
\* uuid, makedirs
CloudFetchRecordings ==
  /\ program = "cloud" /\ pc = "main"
  /\ \E resp \in RunExchangeResponses, lr \in ListingResponses :
       LET s == ReadState(_access_token, _token_expiry, issued, resp)
       IN /\ SetFields(s)
          /\ IF s.raised # "none"
               THEN /\ netCalls' = netCalls \cup s.calls
                    /\ Raise(s.raised)
                    /\ UNCHANGED <<meets, meeting_uuid, dirExists>>
             ELSE IF api_call(lr) # "none"
               THEN /\ netCalls' = netCalls \cup s.calls \cup {"recordings"}
                    /\ Raise(api_call(lr))
                    /\ UNCHANGED <<meets, meeting_uuid, dirExists>>
             ELSE /\ netCalls' = netCalls \cup s.calls \cup {"recordings"}
                  /\ meets' = Some([has_meetings |-> lr.has_meetings, meetings |-> lr.meetings])
                  /\ IF NoMeetings(lr)
                       THEN pc' = "done" /\ UNCHANGED <<err, meeting_uuid, dirExists>>
                     ELSE IF ~lr.has_meetings
                       THEN Raise("KeyError") /\ UNCHANGED <<meeting_uuid, dirExists>>
                     ELSE IF lr.meetings = <<>>
                       THEN Raise("IndexError") /\ UNCHANGED <<meeting_uuid, dirExists>>
                     ELSE /\ meeting_uuid' = Some(lr.meetings[1])
                          /\ dirExists' = TRUE
                          /\ pc' = "get_meeting"
                          /\ UNCHANGED err
  /\ UNCHANGED <<program, env, now, dirFiles, outFile, transcriptFile, fs0,
                 loopVars, mergeVars, labelVars>>

\* main, lines 84-85
CloudFetchMeetingRecordings ==
  /\ program = "cloud" /\ pc = "get_meeting"
  /\ \E resp \in RunExchangeResponses, mr \in MeetingResponses :
       LET s == ReadState(_access_token, _token_expiry, issued, resp)
       IN /\ SetFields(s)
          /\ IF s.raised # "none"
               THEN /\ netCalls' = netCalls \cup s.calls
                    /\ Raise(s.raised)
                    /\ UNCHANGED participant_audio_files
             ELSE IF api_call(mr) # "none" \/ ~mr.has_files
               THEN /\ netCalls' = netCalls \cup s.calls \cup {"meeting"}
                    /\ Raise(IF api_call(mr) # "none" THEN api_call(mr) ELSE "KeyError")
                    /\ UNCHANGED participant_audio_files
             ELSE /\ netCalls' = netCalls \cup s.calls \cup {"meeting"}
                  /\ participant_audio_files' = mr.files
                  /\ pc' = IF mr.files = <<>> THEN "combine" ELSE "download"
                  /\ UNCHANGED err
  /\ UNCHANGED <<program, env, now, fsVars, fs0, listVars, idx, channel_map, names,
                 written, fetched, mergeVars, labelVars>>

\* main, lines 93-95: the local file name of the next entry
CloudFilename(cm, participant_name) ==
  LET channel_count ==
        ListCount([i \in 1..Len(cm) |-> PyTuple(cm[i])], PyStr(participant_name)) + 1
      file_label == IF channel_count > 1
                    THEN participant_name \o <<"_">> \o Str(channel_count)
                    ELSE participant_name
  IN file_label \o M4A

\* main, lines 87-107: one turn of the download loop
CloudDownloadFile ==
  /\ program = "cloud" /\ pc = "download"
  /\ \E resp1, resp2 \in RunExchangeResponses, outcome \in DownloadOutcomes :
       LET participant_name == DisplayName(participant_audio_files[idx])
           local_filename == CloudFilename(channel_map, participant_name)
           s1 == ReadState(_access_token, _token_expiry, issued, resp1)
           s2 == ReadState(s1.token, s1.expiry, s1.issued, resp2)
       IN IF s1.raised # "none"
            THEN /\ SetFields(s1)
                 /\ netCalls' = netCalls \cup s1.calls
                 /\ Raise(s1.raised)
                 /\ UNCHANGED <<dirFiles, written, fetched, idx, channel_map>>
          ELSE IF s2.raised # "none"
            THEN /\ SetFields(s2)
                 /\ netCalls' = netCalls \cup s1.calls \cup s2.calls
                 /\ Raise(s2.raised)
                 /\ UNCHANGED <<dirFiles, written, fetched, idx, channel_map>>
          ELSE IF outcome = "transport_error"
            THEN /\ SetFields(s2)
                 /\ netCalls' = netCalls \cup s1.calls \cup s2.calls \cup {"download"}
                 /\ fetched' = Append(fetched, outcome)
                 /\ Raise("ConnectionError")
                 /\ UNCHANGED <<dirFiles, written, idx, channel_map>>
          ELSE /\ SetFields(s2)
               /\ netCalls' = netCalls \cup s1.calls \cup s2.calls \cup {"download"}
               /\ fetched' = Append(fetched, outcome)
               /\ dirFiles' = WriteFile(dirFiles, local_filename,
                                        [from |-> idx, audio |-> outcome = "ok"])
               /\ written' = Append(written, local_filename)
               /\ channel_map' = Append(channel_map, <<local_filename, participant_name>>)
               /\ idx' = idx + 1
               /\ pc' = IF idx + 1 > Len(participant_audio_files) THEN "combine" ELSE "download"
               /\ UNCHANGED err
  /\ UNCHANGED <<program, env, now, dirExists, outFile, transcriptFile, fs0,
                 listVars, participant_audio_files, names, mergeVars, labelVars>>

\* lines 115-116: os.remove when os.path.exists
RemoveIfExists(out) == IF out # "absent" THEN "absent" ELSE out

\* main, lines 114-118: the old output removed, then combine_tracks(safe=False)
CloudCombine ==
  /\ program = "cloud" /\ pc = "combine"
  /\ \E order \in Orderings(DOMAIN dirFiles), tool_ok \in BOOLEAN :
       LET out == RemoveIfExists(outFile)
           res == combine_tracks(CombinedPath, TmpDir, FALSE, out # "absent",
                                 dirExists, order, tool_ok)
       IN /\ call' = Some([safe |-> FALSE, out_exists |-> out # "absent",
                           dir_exists |-> dirExists, entries |-> DOMAIN dirFiles])
          /\ listed' = res.listed
          /\ ffmpeg' = res.command
          /\ outFile' = IF res.wrote THEN "merged" ELSE out
          /\ IF res.raised # "none" THEN Raise(res.raised)
             ELSE pc' = "transcribe" /\ UNCHANGED err
  /\ UNCHANGED <<program, env, tokenVars, now, netCalls, dirExists, dirFiles,
                 transcriptFile, fs0, listVars, loopVars, labelVars>>

\* main, lines 124-127: the service answers with a transcript or the request
\* fails
CloudTranscribe ==
  /\ program = "cloud" /\ pc = "transcribe"
  /\ \E ok \in BOOLEAN, utts \in Utterances :
       IF ok THEN /\ utterances' = utts
                  /\ pc' = "label"
                  /\ UNCHANGED err
       ELSE /\ Raise("TranscriptError")
            /\ UNCHANGED utterances
  /\ netCalls' = netCalls \cup {"transcribe"}
  /\ UNCHANGED <<program, env, tokenVars, now, fsVars, fs0, listVars, loopVars,
                 mergeVars, final_utterances>>

UnknownChannel == <<"U", "n", "k", "n", "o", "w", "n", "C", "h", "a", "n", "n", "e", "l">>

\* main, lines 135-141: the participant of one utterance, or what it raised
LabelOne(utt, cm) ==
  LET ch == IntOf(utt.channel)
      ch_idx == ch.val
  IN IF ~ch.ok THEN [raised |-> "ValueError", participant |-> <<>>]
     ELSE IF ch_idx < Len(cm)
       THEN LET e == PyIndex(cm, ch_idx)
            IN IF e.ok THEN [raised |-> "none", participant |-> e.val[1][2]]
               ELSE [raised |-> "IndexError", participant |-> <<>>]
     ELSE [raised |-> "none", participant |-> UnknownChannel \o Str(ch_idx)]

\* main, lines 132-153: the labeling loop
CloudLabel ==
  /\ program = "cloud" /\ pc = "label"
  /\ LET res == [i \in 1..Len(utterances) |-> LabelOne(utterances[i], channel_map)]
         bad == {i \in 1..Len(utterances) : res[i].raised # "none"}
         stop == IF bad = {} THEN Len(utterances) + 1
                 ELSE CHOOSE i \in bad : \A j \in bad : i <= j
     IN /\ final_utterances' =
             [i \in 1..(stop - 1) |->
                [participant |-> res[i].participant, text |-> utterances[i].text]]
        /\ IF bad = {} THEN pc' = "save" /\ UNCHANGED err
           ELSE Raise(res[stop].raised)
  /\ UNCHANGED <<program, env, tokenVars, now, netCalls, fsVars, fs0, listVars,
                 loopVars, mergeVars, utterances>>

\* main, lines 158-165, and save_transcript_to_json
CloudSave ==
  /\ program = "cloud" /\ pc = "save"
  /\ transcriptFile' = "written"
  /\ pc' = "done"
  /\ UNCHANGED <<program, env, err, tokenVars, now, netCalls, dirExists, dirFiles,
                 outFile, fs0, listVars, loopVars, mergeVars, labelVars>>

\* ---------------------------------------------------------------- local.py
\* lines 11-15
LocalConfigOk(e) == Truthy(e["ASSEMBLYAI_API_KEY"])

LocalStartup ==
  /\ program = "local" /\ pc = "startup"
  /\ IF LocalConfigOk(env) THEN pc' = "main" /\ UNCHANGED err
     ELSE Raise("RuntimeError")
  /\ UNCHANGED <<program, env, tokenVars, now, netCalls, fsVars, fs0, listVars,
                 loopVars, mergeVars, labelVars>>

\* main, lines 23-24: combine_tracks(path, dir="recordings"), safe by default
LocalCombine ==
  /\ program = "local" /\ pc = "main"
  /\ \E order \in Orderings(DOMAIN dirFiles), tool_ok \in BOOLEAN :
       LET res == combine_tracks(CombinedPath, RecordingsDir, TRUE, outFile # "absent",
                                 dirExists, order, tool_ok)
       IN /\ call' = Some([safe |-> TRUE, out_exists |-> outFile # "absent",
                           dir_exists |-> dirExists, entries |-> DOMAIN dirFiles])
          /\ listed' = res.listed
          /\ ffmpeg' = res.command
          /\ outFile' = IF res.wrote THEN "merged" ELSE outFile
          /\ IF res.raised # "none" THEN Raise(res.raised)
             ELSE pc' = "transcribe" /\ UNCHANGED err
  /\ UNCHANGED <<program, env, tokenVars, now, netCalls, dirExists, dirFiles,
                 transcriptFile, fs0, listVars, loopVars, labelVars>>

\* main, lines 27-30: transcribe and print
LocalTranscribe ==
  /\ program = "local" /\ pc = "transcribe"
  /\ \E ok \in BOOLEAN, utts \in Utterances :
       IF ok THEN /\ utterances' = utts
                  /\ pc' = "done"
                  /\ UNCHANGED err
       ELSE /\ Raise("TranscriptError")
            /\ UNCHANGED utterances
  /\ netCalls' = netCalls \cup {"transcribe"}
  /\ UNCHANGED <<program, env, tokenVars, now, fsVars, fs0, listVars, loopVars,
                 mergeVars, final_utterances>>

\* ------------------------------------------------------- the three programs
Init ==
  /\ program \in {"cloud", "local", "download"}
  /\ env \in [EnvKeys -> EnvValues]
  /\ (program = "download" => \A k \in EnvKeys : Truthy(env[k]) /\ env[k] = Some(<<"v">>))
  /\ pc = IF program = "download" THEN "start" ELSE "startup"
  /\ InitFS
  /\ InitRest

Next ==
  \/ CloudStartup
  \/ CloudFetchRecordings
  \/ CloudFetchMeetingRecordings
  \/ CloudDownloadFile
  \/ CloudCombine
  \/ CloudTranscribe
  \/ CloudLabel
  \/ CloudSave
  \/ LocalStartup
  \/ LocalCombine
  \/ LocalTranscribe
  \/ DownloadParticipantAudioFiles
  \/ DownloadParticipantAudioFile

Spec == Init /\ [][Next]_vars

\* ================================================================= claims
IsM4A(f) == EndsWith(f, M4A)

Labeled == program = "cloud" /\ pc \in {"save", "done", "error"}
           /\ "transcribe" \in netCalls /\ err # "TranscriptError"

\* the file name the k-th occurrence of a display name is to get
ExpectedFilename(files, i) ==
  LET name == DisplayName(files[i])
      k == Cardinality({j \in 1..i : DisplayName(files[j]) = name})
  IN (IF k > 1 THEN name \o <<"_">> \o Str(k) ELSE name) \o M4A

\* C1: in a run of the cloud pipeline that downloaded a non-empty list of N
\* files, the merge command has N inputs, an output channel count of N, and
\* its i-th input is the file recorded at channel_map[i].
C1_MergeFollowsChannelMap ==
  (program = "cloud" /\ ffmpeg # None /\ Len(channel_map) >= 1) =>
    LET cmd == ffmpeg[1]
        N == Len(channel_map)
    IN /\ N = Len(participant_audio_files)
       /\ Len(cmd.inputs) = N
       /\ cmd.amerge_n = N
       /\ cmd.ac = N
       /\ \A i \in 1..N : cmd.inputs[i] = PathJoin(TmpDir, channel_map[i][1])

\* C2: the downloads produce one entry per file in the order received, with
\* pairwise distinct local file names: the k-th occurrence (k > 1) of a name
\* gets the suffix _k and a first occurrence none; in cloud.main and in
\* ZoomClient.download_participant_audio_files alike.
C2_DistinctLocalFilenames ==
  /\ \A i \in 1..Len(written) :
       /\ written[i] = ExpectedFilename(participant_audio_files, i)
       /\ \A j \in 1..Len(written) : i # j => written[i] # written[j]
  /\ program = "cloud" =>
       /\ Len(channel_map) = Len(written)
       /\ \A i \in 1..Len(channel_map) :
            /\ channel_map[i][1] = written[i]
            /\ channel_map[i][2] = DisplayName(participant_audio_files[i])

\* C3: when the fetch of a participant file fails (a non-success response or
\* a transport error) the run aborts there: no entry is appended for that
\* file, no later file is requested, and combine, transcribe, label and save
\* are never reached.
C3_FailedFetchAborts ==
  \A k \in 1..Len(fetched) :
    fetched[k] # "ok" =>
      /\ Len(fetched) = k
      /\ Len(written) < k
      /\ Len(channel_map) < k
      /\ pc = "error"
      /\ call = None
      /\ "transcribe" \notin netCalls
      /\ final_utterances = <<>>
      /\ transcriptFile = fs0.transcriptFile

\* C4: a read of access_token with no token cached performs one exchange; a
\* read before the cached expiry performs none and returns the cached token,
\* which stays cached; a read at or after the cached expiry performs one
\* exchange and, when it returns, returns the token of that exchange.
C4_TokenCachedUntilExpiry ==
  lastRead # None =>
    LET r == lastRead[1]
    IN /\ r.pre_token = None => r.exchanged
       /\ (r.pre_token # None /\ r.pre_expiry # None /\ r.at < r.pre_expiry[1]) =>
            /\ ~r.exchanged
            /\ r.raised = "none"
            /\ r.returned = r.pre_token
            /\ r.post_token = r.pre_token
            /\ r.post_expiry = r.pre_expiry
       /\ (r.pre_token # None /\ r.pre_expiry # None /\ r.at >= r.pre_expiry[1]) =>
            /\ r.exchanged
            /\ r.raised = "none" =>
                 /\ r.returned = Some(r.resp.access_token)
                 /\ r.post_token = r.returned
                 /\ r.post_expiry = Some(r.at + r.resp.expires_in)

\* a read at the cached expiry that exchanged and returned a new token
C4_Witness ==
  /\ lastRead # None
  /\ lastRead[1].pre_token # None
  /\ lastRead[1].pre_expiry = Some(lastRead[1].at)
  /\ lastRead[1].exchanged
  /\ lastRead[1].raised = "none"
  /\ lastRead[1].returned # lastRead[1].pre_token
  /\ _access_token = lastRead[1].returned

\* C5: labeling is total: an utterance whose channel index i is within
\* 0 <= i < |channel_map| gets channel_map[i]'s participant name, every other
\* index gets the placeholder UnknownChannel<i>; labeling never raises, and
\* the labeled utterances keep the transcript's order and count.
C5_LabelingTotal ==
  Labeled =>
    /\ err = "none"
    /\ Len(final_utterances) = Len(utterances)
    /\ \A i \in 1..Len(final_utterances) :
         LET ch_idx == IntOf(utterances[i].channel).val
         IN /\ final_utterances[i].text = utterances[i].text
            /\ final_utterances[i].participant =
                 IF 0 <= ch_idx /\ ch_idx < Len(channel_map)
                 THEN channel_map[ch_idx + 1][2]
                 ELSE UnknownChannel \o Str(ch_idx)

\* C6: combine_tracks called with safe=True on an output path that exists
\* fails with FileExistsError before it lists the input directory or runs the
\* merge tool, whatever the directory holds, and leaves the file system as
\* it was.
C6_SafeRefusesExistingOutput ==
  (call # None /\ call[1].safe /\ call[1].out_exists) =>
    /\ pc = "error"
    /\ err = "FileExistsError"
    /\ ~listed
    /\ ffmpeg = None
    /\ FS = fs0

\* safe=True, the output exists and the directory holds an eligible file
C6_Witness ==
  /\ call # None
  /\ call[1].safe
  /\ call[1].out_exists
  /\ \E f \in call[1].entries : IsM4A(f)
  /\ err = "FileExistsError"
  /\ outFile = "old"

NoEligibleCall ==
  /\ call # None
  /\ call[1].dir_exists
  /\ \A f \in call[1].entries : ~IsM4A(f)

\* C7 as stated: combine_tracks on a directory with no eligible .m4a file
\* always fails with ValueError and never runs the merge tool or creates the
\* output file.
C7_EmptyAlwaysValueError ==
  NoEligibleCall =>
    /\ pc = "error"
    /\ err = "ValueError"
    /\ ffmpeg = None
    /\ outFile # "merged"

\* C7 as amended: combine_tracks on a directory with no eligible .m4a file
\* fails with ValueError, unless safe is set and the output path exists, when
\* it fails with FileExistsError first; either way it never runs the merge
\* tool or creates the output file.
C7_EmptyFailsWithoutMerge ==
  NoEligibleCall =>
    /\ pc = "error"
    /\ err = IF call[1].safe /\ call[1].out_exists THEN "FileExistsError" ELSE "ValueError"
    /\ ffmpeg = None
    /\ outFile # "merged"
    /\ outFile = IF call[1].out_exists THEN "old" ELSE "absent"

\* the directory held only a file of another extension and the call raised
\* ValueError after listing it
C7_Witness ==
  /\ NoEligibleCall
  /\ call[1].entries # {}
  /\ listed
  /\ err = "ValueError"

\* C8: when the listing returns no meetings (the key missing or the list
\* empty) cloud.main ends normally: nothing is created, written or removed,
\* no participant file is requested, and combine, transcribe and save are
\* never reached.
C8_NoMeetingsCleanExit ==
  (program = "cloud" /\ meets # None
     /\ (~meets[1].has_meetings \/ meets[1].meetings = <<>>)) =>
    /\ pc = "done"
    /\ err = "none"
    /\ FS = fs0
    /\ netCalls \subseteq {"token", "recordings"}
    /\ fetched = <<>>
    /\ call = None
    /\ ffmpeg = None
    /\ final_utterances = <<>>

\* an empty meetings list, on a machine where tmp did not exist
C8_Witness ==
  /\ program = "cloud"
  /\ meets # None
  /\ meets[1].has_meetings
  /\ meets[1].meetings = <<>>
  /\ pc = "done"
  /\ ~fs0.dirExists
  /\ ~dirExists

\* the configuration a program requires
RequiredConfig == IF program = "local" THEN {"ASSEMBLYAI_API_KEY"} ELSE EnvKeys

ConfigMissing == \E k \in RequiredConfig : env[k] = None \/ env[k] = Some(<<>>)

\* C9: when a required configuration value is missing or empty, startup
\* fails with an error before any network call: no token exchange, listing,
\* download or transcription request is made in that run.
C9_ConfigFailsFast ==
  (program \in {"cloud", "local"} /\ ConfigMissing) =>
    /\ netCalls = {}
    /\ pc # "startup" => (pc = "error" /\ err = "RuntimeError")

\* cloud.py started with an empty transcription key and the rest set
C9_Witness ==
  /\ program = "cloud"
  /\ env["ASSEMBLYAI_API_KEY"] = Some(<<>>)
  /\ \A k \in EnvKeys \ {"ASSEMBLYAI_API_KEY"} : Truthy(env[k])
  /\ pc = "error"
  /\ err = "RuntimeError"

\* C10: the cached token and its expiry are replaced together: the pair is
\* unset or both values come from the same successful exchange, and an
\* exchange that fails leaves both fields as they were.
C10_PairReplacedTogether ==
  /\ \/ (_access_token = None /\ _token_expiry = None)
     \/ (issued # None /\ <<_access_token, _token_expiry>> = issued[1])
  /\ (lastRead # None /\ lastRead[1].raised # "none") =>
       /\ _access_token = lastRead[1].pre_token
       /\ _token_expiry = lastRead[1].pre_expiry

====
